---- MODULE Spec2Model ----
(***************************************************************************)
(* Model of the OCR job orchestrator of ocr-app/src/app/page.tsx (the Home *)
(* component: job table, admission effect, processFile pipeline) and of    *)
(* the language-pack service worker (worker/index.js).                     *)
(*                                                                         *)
(* React state is modelled by two copies of each useState value: the       *)
(* latest value (all queued updaters applied in order) and the value seen  *)
(* by the closures of the last render (rJobs, rSelected).  An async        *)
(* function is cut at its awaits: every action is one continuation.  The   *)
(* page and the service worker run in different threads: a request of the  *)
(* page, the cache lookup of the worker and its resolution, the answer of  *)
(* the network, the continuation of the worker and the continuation of the *)
(* page are separate steps.                                                *)
(***************************************************************************)
EXTENDS Integers, Sequences, FiniteSets, TLC

\* ---------------------------------------------------------------- bounds
MaxJobs == 2
MaxPages == 2
MaxFiles == 2
MaxToggles == 1
MaxImports == 1
MaxBlobs == 1

\* ------------------------------------------------------------- constants
DurationLimit == 15000

JobIds == 1..MaxJobs

\* lib/languages is not part of the sources: the bundled languages.
builtInLanguages ==
  << [code |-> "eng", builtIn |-> TRUE], [code |-> "spa", builtIn |-> TRUE] >>

Codes == {builtInLanguages[i].code : i \in DOMAIN builtInLanguages}

\* The codes typed into the import form: a registered one and a new one.
ImportCodes == {"eng", "fra"}

\* Every language code the page can come to know.
AllCodes == Codes \cup ImportCodes

SUPPORTED_FILE_TYPES ==
  {"image/png", "image/jpeg", "image/webp", "image/gif", "image/bmp",
   "application/pdf", "docx-mime"}

\* The mime types for which file.type.startsWith("image/") is true.
ImageTypes == {"image/png", "image/jpeg", "image/webp", "image/gif", "image/bmp",
               "image/tiff"}

\* Submitted files: declared mime type and the extension the name ends with.
Files ==
  { [type |-> "image/png", ext |-> "png"],
    [type |-> "", ext |-> "docx"],
    [type |-> "text/plain", ext |-> "txt"] }

NoFile == [type |-> "none", ext |-> "none"]

isImage(file) == file.type \in ImageTypes

isPdf(file) == file.type = "application/pdf" \/ file.ext = "pdf"

isDocx(file) == file.type = "docx-mime" \/ file.ext = "docx"

readableFileType(file) ==
  IF isImage(file) THEN "Image"
  ELSE IF isPdf(file) THEN "PDF"
  ELSE IF file.ext = "docx" THEN "Word Document"
  ELSE IF file.type # "" THEN file.type ELSE "Unknown"

\* The test of handleFiles that sorts a file into accepted or rejected.
Accepted(file) ==
  file.type \in SUPPORTED_FILE_TYPES \/ isImage(file) \/ isPdf(file) \/ isDocx(file)

\* ------------------------------------------------------------- fractions
\* progress is a rational number num/den (den > 0).
Frac(n, d) == [num |-> n, den |-> d]

Zero == Frac(0, 1)

Half == Frac(1, 2)

One == Frac(1, 1)

Leq(a, b) == a.num * b.den <= b.num * a.den

\* Intra-page fractions the recognition callback reports, in halves.
Halves == {1, 2}

\* Fractions the progress callback may be called with, in halves: the
\* callback takes any number, also one below 0 or above 1.
ReportedHalves == {-1, 1, 2, 3}

\* ------------------------------------------------------------ warnings
NoImagesWarning == [kind |-> "no-embedded-images", page |-> 0]

NoContentWarning == [kind |-> "no-visual-content", page |-> 0]

\* The warning naming the page by its zero-based index.
DurationWarningZeroBased(index) == [kind |-> "slow-page", page |-> index]

DurationWarning(index) == [kind |-> "slow-page", page |-> index + 1]

\* Durations of one recognition call, in ms: under and over the limit.
Durations == {1000, 20000}

VARIABLES
  jobs,               \* useState jobs: latest value, newest job first
  rJobs,              \* what the closures of the last render read of jobs
  dirty,              \* jobs was set since the last render
  selectedLanguages,  \* useState selectedLanguages: latest value
  rSelected,          \* selectedLanguages as captured by the last render
  fileMap,            \* useRef Map jobId -> File
  nextId,             \* the next uuid
  toggles,            \* language toggles so far
  effectDue,          \* the admission effect of the last render has not run
  prefetchDue,        \* the mount-time prefetch effect has not run
  proc,               \* per job id: the position and locals of processFile
  hist,               \* per job id: the statuses the job has had, in order
  cached,             \* ensureLanguageCached: artifact.cached per key
  inflight,           \* ensureLanguageCached: a shared fetch is in flight per key
  swReq,              \* service worker: fetch events per key whose cache.match
                      \* has not run
  swMatch,            \* service worker: per key, what the cache held at each
                      \* cache.match call on which the listener has not resumed
  swNet,              \* service worker: network fetches per key not yet settled
  swGot,              \* service worker: per key, the outcomes of settled network
                      \* fetches the listener has not resumed on
  swResp,             \* per key: the responses handed to respondWith on which
                      \* the page has not resumed
  swCache,            \* service worker: the entry of ocr-language-cache per key
  putPending,         \* service worker: per key, the responses of the cache.put
                      \* calls that have not finished, in call order
  served,             \* per key: a request was answered from the cache
  availableLanguages, \* useState availableLanguages: latest value
  rAvailable,         \* availableLanguages as captured by the last render
  importing,          \* the code of the import being awaited, or "none"
  imports             \* imports started so far

vars == << jobs, rJobs, dirty, selectedLanguages, rSelected, fileMap, nextId,
           toggles, effectDue, prefetchDue, proc, hist, cached, inflight,
           swReq, swMatch, swNet, swGot, swResp, swCache, putPending, served,
           availableLanguages, rAvailable, importing, imports >>

jobVars == << jobs, rJobs, dirty, selectedLanguages, rSelected, fileMap,
              nextId, toggles, effectDue, proc, hist >>

cacheVars == << cached, inflight, swReq, swMatch, swNet, swGot, swResp,
               swCache, putPending, served >>

\* The state of the service worker.
workerVars == << swReq, swMatch, swNet, swGot, swResp, swCache, putPending,
                served >>

registryVars == << availableLanguages, rAvailable, importing, imports >>

\* ------------------------------------------------------------ job table
Range(s) == {s[i] : i \in DOMAIN s}

HasJob(js, id) == \E i \in DOMAIN js : js[i].id = id

\* jobs.find((entry) => entry.id === jobId), for an id the table holds.
FindJob(js, id) == js[CHOOSE i \in DOMAIN js : js[i].id = id]

\* { ...job, ...partial }
Merge(job, partial) ==
  [f \in DOMAIN job |-> IF f \in DOMAIN partial THEN partial[f] ELSE job[f]]

\* The update without the test on the id.
updateEveryJob(js, id, partial) == [i \in DOMAIN js |-> Merge(js[i], partial)]

updateJob(js, id, partial) ==
  [i \in DOMAIN js |-> IF js[i].id = id THEN Merge(js[i], partial) ELSE js[i]]

\* The segment put in front of the list.
prependSegment(js, id, segment) ==
  [i \in DOMAIN js |->
     IF js[i].id = id
     THEN [js[i] EXCEPT !.segments = << segment >> \o js[i].segments]
     ELSE js[i]]

appendSegment(js, id, segment) ==
  [i \in DOMAIN js |->
     IF js[i].id = id
     THEN [js[i] EXCEPT !.segments = Append(js[i].segments, segment)]
     ELSE js[i]]

\* The job handleFiles creates for an accepted file.
NewJob(id, file, langs) ==
  [id |-> id, name |-> file.ext, type |-> readableFileType(file),
   status |-> "pending", languages |-> langs, progress |-> Zero,
   completedAt |-> "undefined", error |-> "undefined", segments |-> << >>,
   extractedText |-> "", warnings |-> << >>]

\* The job handleFiles creates when some files were rejected.
RejectedJob(id, langs) ==
  [id |-> id, name |-> "Unsupported files", type |-> "System",
   status |-> "error", languages |-> langs, progress |-> Zero,
   completedAt |-> "undefined", error |-> "Unsupported files",
   segments |-> << >>, extractedText |-> "", warnings |-> << >>]

StatusOf(js, id) == IF HasJob(js, id) THEN FindJob(js, id).status ELSE "absent"

\* hist after the job table became js: a status is recorded when it changes.
Observe(h, js) ==
  [id \in JobIds |->
     IF HasJob(js, id) /\ (h[id] = << >> \/ h[id][Len(h[id])] # StatusOf(js, id))
     THEN Append(h[id], StatusOf(js, id))
     ELSE h[id]]

\* -------------------------------------------------------- processFile
\* pc, and the locals of processFile: need (ensureLanguageCached calls not yet
\* settled), n (canvases.length), index, text (extractedText), warnings, langs
\* (job.languages).  The other fields record what the run did: runs (starts of
\* the pipeline), ensured (calls that succeeded), failed (a call failed),
\* resolved (the decoders returned), calls (recognizeImage calls), failedAt
\* (index of the page whose recognizeImage call failed, or -1), durations (the
\* duration measured for each page recognized, in page order), thrown (the
\* value the catch block caught).
IdleProc ==
  [pc |-> "idle", runs |-> 0, need |-> {}, ensured |-> {}, failed |-> FALSE,
   resolved |-> FALSE, n |-> 0, index |-> 0, text |-> "", warnings |-> << >>,
   calls |-> 0, failedAt |-> -1, langs |-> << >>, durations |-> << >>,
   thrown |-> [isError |-> FALSE, message |-> ""]]

\* processFile returned: its locals are gone, the record of the run stays.
Returned(p) ==
  [p EXCEPT !.pc = "done", !.need = {}, !.index = 0, !.text = "",
            !.warnings = << >>]

Init ==
  /\ jobs = << >>
  /\ rJobs = << >>
  /\ dirty = FALSE
  /\ selectedLanguages = << "eng" >>
  /\ rSelected = << "eng" >>
  /\ fileMap = [id \in JobIds |-> NoFile]
  /\ nextId = 1
  /\ toggles = 0
  /\ effectDue = TRUE
  /\ prefetchDue = TRUE
  /\ proc = [id \in JobIds |-> IdleProc]
  /\ hist = [id \in JobIds |-> << >>]
  /\ cached = [k \in AllCodes |-> FALSE]
  /\ inflight = [k \in AllCodes |-> FALSE]
  /\ swReq = [k \in AllCodes |-> 0]
  /\ swMatch = [k \in AllCodes |-> << >>]
  /\ swNet = [k \in AllCodes |-> 0]
  /\ swGot = [k \in AllCodes |-> << >>]
  /\ swResp = [k \in AllCodes |-> << >>]
  /\ swCache = [k \in AllCodes |-> "none"]
  /\ putPending = [k \in AllCodes |-> << >>]
  /\ served = [k \in AllCodes |-> FALSE]
  /\ availableLanguages = builtInLanguages
  /\ rAvailable = builtInLanguages
  /\ importing = "none"
  /\ imports = 0

\* ------------------------------------------------------ language toggle
Includes(s, x) == \E i \in DOMAIN s : s[i] = x

Filter(s, x) == SelectSeq(s, LAMBDA item : item # x)

\* The toggle without the test that keeps one language selected.
ToggleUnguarded(prev, code) ==
  IF Includes(prev, code) THEN Filter(prev, code) ELSE Append(prev, code)

ToggleResult(prev, code) ==
  IF Includes(prev, code)
  THEN (IF Len(Filter(prev, code)) > 0 THEN Filter(prev, code) ELSE prev)
  ELSE Append(prev, code)

handleLanguageToggle(code) ==
  /\ ~prefetchDue
  /\ toggles < MaxToggles
  /\ toggles' = toggles + 1
  /\ selectedLanguages' = ToggleResult(selectedLanguages, code)
  /\ UNCHANGED << jobs, rJobs, dirty, rSelected, fileMap, nextId, effectDue,
                  prefetchDue, proc, hist >>
  /\ UNCHANGED cacheVars
  /\ UNCHANGED registryVars

\* ------------------------------------------------------ language import
\* The option handleLanguageImport builds from the imported code.
ImportedOption(code) == [code |-> code, builtIn |-> FALSE]

\* setAvailableLanguages((prev) => [...prev, option])
RegisterOption(prev, option) == Append(prev, option)

\* setSelectedLanguages((prev) => prev.includes(code) ? prev : [...prev, code])
SelectImported(prev, code) == IF Includes(prev, code) THEN prev ELSE Append(prev, code)

\* The button of the import form is offered while no import is awaited.
\* handleLanguageImport up to "await importLanguageFromFile(code, file)";
\* code is languageCodeInput.toLowerCase().
handleLanguageImport(code) ==
  /\ ~prefetchDue
  /\ importing = "none"
  /\ imports < MaxImports
  /\ importing' = code
  /\ imports' = imports + 1
  /\ UNCHANGED << availableLanguages, rAvailable >>
  /\ UNCHANGED jobVars
  /\ UNCHANGED << prefetchDue >>
  /\ UNCHANGED cacheVars

\* lib/cacheLanguage is not part of the sources; spec 4.2 (importFromBytes):
\* a successful import writes the bytes into the cache as already cached.
ImportCached(c, code) == [c EXCEPT ![code] = TRUE]

\* importLanguageFromFile returned (ok) or threw: on success the option is
\* registered and the code selected; the catch block only logs.
ImportSettle(ok) ==
  /\ importing # "none"
  /\ importing' = "none"
  /\ IF ok
     THEN /\ availableLanguages' =
               RegisterOption(availableLanguages, ImportedOption(importing))
          /\ selectedLanguages' = SelectImported(selectedLanguages, importing)
          /\ cached' = ImportCached(cached, importing)
     ELSE UNCHANGED << availableLanguages, selectedLanguages, cached >>
  /\ UNCHANGED << jobs, rJobs, dirty, rSelected, fileMap, nextId, toggles,
                  effectDue, prefetchDue, proc, hist, rAvailable, imports >>
  /\ UNCHANGED inflight
  /\ UNCHANGED workerVars

\* The language buttons the last render shows: one per available language.
Offered(code) == \E i \in DOMAIN rAvailable : rAvailable[i].code = code

\* ---------------------------------------------------------- handleFiles
RECURSIVE AddAccepted(_, _, _, _)
\* accepted.forEach: one uuid, one fileMap entry and one prepended job each.
AddAccepted(accepted, js, id, langs) ==
  IF accepted = << >> THEN js
  ELSE AddAccepted(Tail(accepted),
                   << NewJob(id, Head(accepted), langs) >> \o js, id + 1, langs)

handleFiles(fileList) ==
  LET accepted == SelectSeq(fileList, Accepted)
      rejected == SelectSeq(fileList, LAMBDA f : ~Accepted(f))
      used == IF Len(rejected) > 0 THEN 1 ELSE 0
      withRejected == IF Len(rejected) > 0
                      THEN << RejectedJob(nextId, rSelected) >> \o jobs
                      ELSE jobs
      first == nextId + used
  IN /\ ~prefetchDue
     /\ nextId + used + Len(accepted) <= MaxJobs + 1
     /\ jobs' = AddAccepted(accepted, withRejected, first, rSelected)
     /\ fileMap' = [id \in JobIds |->
                      IF id >= first /\ id < first + Len(accepted)
                      THEN accepted[id - first + 1] ELSE fileMap[id]]
     /\ nextId' = first + Len(accepted)
     /\ dirty' = TRUE
     /\ hist' = Observe(hist, jobs')
     /\ UNCHANGED << rJobs, selectedLanguages, rSelected, toggles, effectDue,
                     prefetchDue, proc >>
     /\ UNCHANGED cacheVars
     /\ UNCHANGED registryVars

\* ------------------------------------------------------- aggregatedText
RECURSIVE InsertByPage(_, _)
\* seg put into a sequence sorted by pageIndex, after the entries that do not
\* compare greater (Array.prototype.sort is stable).
InsertByPage(sorted, seg) ==
  IF sorted = << >> THEN << seg >>
  ELSE IF seg.pageIndex - Head(sorted).pageIndex < 0 THEN << seg >> \o sorted
  ELSE << Head(sorted) >> \o InsertByPage(Tail(sorted), seg)

RECURSIVE SortByPage(_)
\* segments.sort((a, b) => a.pageIndex - b.pageIndex)
SortByPage(segments) ==
  IF segments = << >> THEN << >>
  ELSE InsertByPage(SortByPage(SubSeq(segments, 1, Len(segments) - 1)),
                    segments[Len(segments)])

\* combineSegments: the blocks of the displayed and exported text, in order;
\* block i is headed "Page i" and carries the text of the i-th sorted segment.
combineSegments(segments) ==
  LET sorted == SortByPage(segments)
  IN [i \in DOMAIN sorted |-> [page |-> i, segment |-> sorted[i]]]

\* --------------------------------------------------------------- render
\* What the closures of a render read of a job: the admission effect reads
\* id and whether status === "pending", processFile reads id and languages.
View(js) ==
  [i \in DOMAIN js |->
     [id |-> js[i].id, pending |-> (js[i].status = "pending"),
      languages |-> js[i].languages]]

\* jobs.map((job) => aggregatedText(job)) of the render: combineSegments
\* sorts job.segments itself, the array the jobs state holds.
SortedInPlace(js) ==
  [i \in DOMAIN js |-> [js[i] EXCEPT !.segments = SortByPage(@)]]

\* A re-render: the closures of handleFiles, processFile and the admission
\* effect capture the latest state; the admission effect is scheduled when
\* jobs changed or processFile is a new function (availableLanguages changed).
Render ==
  /\ ~prefetchDue
  /\ ~effectDue
  /\ dirty \/ selectedLanguages # rSelected \/ availableLanguages # rAvailable
  /\ jobs' = SortedInPlace(jobs)
  /\ rJobs' = View(jobs)
  /\ rSelected' = selectedLanguages
  /\ rAvailable' = availableLanguages
  /\ dirty' = FALSE
  /\ effectDue' = (dirty \/ availableLanguages # rAvailable)
  /\ prefetchDue' = (availableLanguages # rAvailable)
  /\ UNCHANGED << selectedLanguages, fileMap, nextId, toggles, proc,
                  hist, availableLanguages, importing, imports >>
  /\ UNCHANGED cacheVars

\* ------------------------------------------------------ service worker
\* "const cached = await cache.match(event.request)" of the fetch listener:
\* the entry of the key ("none" when there is no entry).
AlwaysMiss(k) == "none"

CacheMatch(k) == swCache[k]

\* Outcomes of fetch(event.request): a successful response, an unsuccessful
\* response (such as 404), or a rejection (offline).
NetOutcomes == {"ok", "bad", "reject"}

\* What the listener hands to cache.put for an outcome of the network fetch:
\* every response it received; nothing when fetch threw.
PutOf(outcome) == IF outcome = "reject" THEN << >> ELSE << outcome >>

\* What the listener hands to respondWith for an outcome of the network
\* fetch: the response, or the 503 response of the catch block.
ResponseOf(outcome) == IF outcome = "reject" THEN "unavailable" ELSE outcome

\* s without its i-th element.
Without(s, i) == SubSeq(s, 1, i - 1) \o SubSeq(s, i + 1, Len(s))

\* The fetch listener up to "await cache.match(event.request)": the lookup is
\* called on the cache as it is now.
FetchListener(k) ==
  /\ swReq[k] > 0
  /\ swReq' = [swReq EXCEPT ![k] = @ - 1]
  /\ swMatch' = [swMatch EXCEPT ![k] = Append(@, CacheMatch(k))]
  /\ UNCHANGED jobVars
  /\ UNCHANGED << prefetchDue, cached, inflight, swNet, swGot, swResp, swCache,
                  putPending, served >>
  /\ UNCHANGED registryVars

\* What a cache.match called when the cache held atCall may resolve with: the
\* entry at the call, or the entry at the resolution (a put may have finished
\* in between; which of the two the lookup reads is the browser's).
MatchResults(k, atCall) == {atCall, CacheMatch(k)}

\* The listener resumes after "await cache.match" with the result found: a
\* hit is handed to respondWith, a miss calls fetch(event.request).
MatchResume(k, found) ==
  /\ swMatch[k] # << >>
  /\ found \in MatchResults(k, Head(swMatch[k]))
  /\ swMatch' = [swMatch EXCEPT ![k] = Tail(@)]
  /\ IF found # "none"
     THEN /\ swResp' = [swResp EXCEPT ![k] = Append(@, found)]
          /\ served' = [served EXCEPT ![k] = TRUE]
          /\ UNCHANGED swNet
     ELSE /\ swNet' = [swNet EXCEPT ![k] = @ + 1]
          /\ UNCHANGED << swResp, served >>
  /\ UNCHANGED jobVars
  /\ UNCHANGED << prefetchDue, cached, inflight, swReq, swGot, swCache,
                  putPending >>
  /\ UNCHANGED registryVars

\* The entries a key of the cache may hold.
CacheEntries == {"none", "ok", "bad"}

\* fetch(event.request) of the listener settled: the network answered, or
\* the request failed.
NetSettle(k, outcome) ==
  /\ swNet[k] > 0
  /\ swNet' = [swNet EXCEPT ![k] = @ - 1]
  /\ swGot' = [swGot EXCEPT ![k] = Append(@, outcome)]
  /\ UNCHANGED jobVars
  /\ UNCHANGED << prefetchDue, cached, inflight, swReq, swMatch, swResp,
                  swCache, putPending, served >>
  /\ UNCHANGED registryVars

\* The listener resumes after "await fetch": a response goes to cache.put
\* (not awaited) and to respondWith, a rejection becomes the 503 response.
ListenerResume(k) ==
  /\ swGot[k] # << >>
  /\ swGot' = [swGot EXCEPT ![k] = Tail(@)]
  /\ putPending' = [putPending EXCEPT ![k] = @ \o PutOf(Head(swGot[k]))]
  /\ swResp' = [swResp EXCEPT ![k] = Append(@, ResponseOf(Head(swGot[k])))]
  /\ UNCHANGED jobVars
  /\ UNCHANGED << prefetchDue, cached, inflight, swReq, swMatch, swNet, swCache,
                  served >>
  /\ UNCHANGED registryVars

\* One of the cache.put calls the listener did not await finishes: the
\* order in which the puts of one key finish is the browser's.
CachePut(k, i) ==
  /\ i \in DOMAIN putPending[k]
  /\ swCache' = [swCache EXCEPT ![k] = putPending[k][i]]
  /\ putPending' = [putPending EXCEPT ![k] = Without(@, i)]
  /\ UNCHANGED jobVars
  /\ UNCHANGED << prefetchDue, cached, inflight, swReq, swMatch, swNet, swGot,
                  swResp, served >>
  /\ UNCHANGED registryVars

\* ------------------------------------------------ ensureLanguageCached
\* lib/cacheLanguage is not part of the sources; spec 4.2 (ArtifactCache).
\* A caller whose key has a fetch in flight awaits the shared handle.
NeverJoins(inf, k) == FALSE

JoinsFlight(inf, k) == inf[k]

\* One call ensureLanguageCached(k) on st = [cached, inflight, swReq]: return
\* at once when cached, join the fetch in flight, or start the one fetch of
\* the key, which is a fetch event of the service worker.
EnsureCall(st, k) ==
  IF st.cached[k] \/ JoinsFlight(st.inflight, k) THEN st
  ELSE [st EXCEPT !.inflight[k] = TRUE, !.swReq[k] = @ + 1]

RECURSIVE EnsureAll(_, _)
EnsureAll(keys, st) ==
  IF keys = << >> THEN st ELSE EnsureAll(Tail(keys), EnsureCall(st, Head(keys)))

CacheState == [cached |-> cached, inflight |-> inflight, swReq |-> swReq]

\* The response the page takes for success: response.ok.
ResponseOk(response) == response = "ok"

\* The shared fetch of key k settled: every job awaiting it observes the
\* outcome; success marks the artifact cached, failure does not.
EnsureSettle(k, ok) ==
  /\ inflight' = [inflight EXCEPT ![k] = FALSE]
  /\ cached' = [cached EXCEPT ![k] = @ \/ ok]
  /\ proc' = [id \in JobIds |->
                IF proc[id].pc = "ensure" /\ k \in proc[id].need
                THEN (IF ok
                      THEN [proc[id] EXCEPT !.need = @ \ {k}, !.ensured = @ \cup {k}]
                      ELSE [proc[id] EXCEPT !.need = @ \ {k}, !.failed = TRUE])
                ELSE proc[id]]

\* The page resumes on the response of the service worker to the fetch of
\* key k.
EnsureResume(k) ==
  /\ swResp[k] # << >>
  /\ swResp' = [swResp EXCEPT ![k] = Tail(@)]
  /\ EnsureSettle(k, ResponseOk(Head(swResp[k])))
  /\ UNCHANGED << jobs, rJobs, dirty, selectedLanguages, rSelected, fileMap,
                  nextId, toggles, effectDue, prefetchDue, hist >>
  /\ UNCHANGED << swReq, swMatch, swNet, swGot, swCache, putPending, served >>
  /\ UNCHANGED registryVars

\* useEffect(..., [availableLanguages]): prefetch of the built-in languages.
PrefetchKeys ==
  LET builtIns == SelectSeq(rAvailable, LAMBDA lang : lang.builtIn)
  IN [i \in DOMAIN builtIns |-> builtIns[i].code]

PrefetchEffect ==
  /\ prefetchDue
  /\ prefetchDue' = FALSE
  /\ LET st == EnsureAll(PrefetchKeys, CacheState)
     IN /\ inflight' = st.inflight
        /\ swReq' = st.swReq
        /\ cached' = st.cached
  /\ UNCHANGED jobVars
  /\ UNCHANGED << swMatch, swNet, swGot, swResp, swCache, putPending, served >>
  /\ UNCHANGED registryVars

\* ------------------------------------------------- admission and pipeline
\* jobs.filter((job) => job.status === "pending") of the admission effect.
AllJobs(js) == js

PendingJobs(js) == SelectSeq(js, LAMBDA job : job.pending)

\* processFile that starts only while no other job is being processed.
RunsWhenIdle(id) ==
  /\ HasJob(rJobs, id) /\ fileMap[id] # NoFile
  /\ \A other \in JobIds : proc[other].pc \in {"idle", "done"}

\* "if (!job || !file) return" of processFile, on the closure's jobs.
ProcessFileRuns(id) == HasJob(rJobs, id) /\ fileMap[id] # NoFile

\* job.languages.map(find in availableLanguages).filter(Boolean), as codes.
OnlyFirstEntry(langs) == SubSeq(langs, 1, 1)

LanguageEntries(langs) ==
  SelectSeq(langs, LAMBDA code :
     \E i \in DOMAIN rAvailable : rAvailable[i].code = code)

RECURSIVE MarkProcessing(_, _)
\* updateJob(jobId, { status: "processing", progress: 0, error: undefined })
\* for every dispatched job.
MarkProcessing(dispatched, js) ==
  IF dispatched = << >> THEN js
  ELSE MarkProcessing(Tail(dispatched),
         updateJob(js, Head(dispatched).id,
                   [status |-> "processing", progress |-> Zero,
                    error |-> "undefined"]))

RECURSIVE EnsureKeys(_)
\* The ensureLanguageCached calls of the dispatched jobs, in call order.
EnsureKeys(dispatched) ==
  IF dispatched = << >> THEN << >>
  ELSE LanguageEntries(Head(dispatched).languages) \o EnsureKeys(Tail(dispatched))

\* The synchronous start of processFile(job.id), up to the await on
\* Promise.all of the ensureLanguageCached calls; st is the cache state after
\* the calls: a key is cached, or its fetch is in flight.
\* processFile reading the selection of the latest render in place of the
\* languages of the job.
StartedProcSelected(old, job, st) ==
  LET entries == Range(LanguageEntries(job.languages))
  IN [IdleProc EXCEPT
        !.pc = "ensure",
        !.runs = old.runs + 1,
        !.need = {k \in entries : ~st.cached[k]},
        !.ensured = {k \in entries : st.cached[k]},
        !.langs = rSelected]

StartedProc(old, job, st) ==
  LET entries == Range(LanguageEntries(job.languages))
  IN [IdleProc EXCEPT
        !.pc = "ensure",
        !.runs = old.runs + 1,
        !.need = {k \in entries : ~st.cached[k]},
        !.ensured = {k \in entries : st.cached[k]},
        !.langs = job.languages]

\* useEffect(..., [jobs, processFile]): processFile for every pending job.
\* The effects of a render run in the order of their declaration, the
\* prefetch effect first.
AdmissionEffect ==
  /\ effectDue
  /\ ~prefetchDue
  /\ effectDue' = FALSE
  /\ LET dispatched == SelectSeq(PendingJobs(rJobs),
                                 LAMBDA job : ProcessFileRuns(job.id))
         st == EnsureAll(EnsureKeys(dispatched), CacheState)
     IN /\ jobs' = MarkProcessing(dispatched, jobs)
        /\ proc' = [id \in JobIds |->
                      IF \E i \in DOMAIN dispatched : dispatched[i].id = id
                      THEN StartedProc(proc[id], FindJob(rJobs, id), st)
                      ELSE proc[id]]
        /\ inflight' = st.inflight
        /\ swReq' = st.swReq
        /\ cached' = st.cached
        /\ dirty' = (dirty \/ dispatched # << >>)
  /\ hist' = Observe(hist, jobs')
  /\ UNCHANGED << rJobs, selectedLanguages, rSelected, fileMap, nextId,
                  toggles, prefetchDue, swMatch, swNet, swGot, swResp,
                  swCache, putPending, served >>
  /\ UNCHANGED registryVars

\* Thrown values: what ensureLanguageCached, the decoders and recognizeImage
\* reject with, and the Error processFile throws itself.
Thrown(isError, message) == [isError |-> isError, message |-> message]

ArtifactFetchFailed == Thrown(TRUE, "ArtifactFetchFailed")

DecodeFailed == Thrown(TRUE, "DecodeFailed")

UnsupportedFileType == Thrown(TRUE, "Unsupported file type")

RecognitionFailed == Thrown(TRUE, "RecognitionFailed")

\* A thrown value that is not an Error (a string, an object): the catch block
\* reads no message from it.
NonErrorValue == Thrown(FALSE, "not an Error")

\* What ensureLanguageCached may reject with: the Error of spec 4.2, or a
\* value that is not an Error.
EnsureRejections == {ArtifactFetchFailed, NonErrorValue}

NotThrown == Thrown(FALSE, "")

\* error instanceof Error ? error.message : "Unexpected error"
\* A catch block that stores no message.
MessageDropped(error) == "undefined"

MessageOf(error) == IF error.isError THEN error.message ELSE "Unexpected error"

\* The catch block with no finally block after it: the file stays in the map.
FailKeepsFile(id, error) ==
  /\ jobs' = updateJob(jobs, id, [status |-> "error", error |-> MessageOf(error)])
  /\ fileMap' = fileMap

\* The catch block resetting the results of the job.
FailReset(id, error) ==
  /\ jobs' = updateJob(jobs, id, [status |-> "error", error |-> MessageOf(error),
                                  segments |-> << >>])
  /\ fileMap' = [fileMap EXCEPT ![id] = NoFile]

\* catch: updateJob(jobId, { status: "error", error: message }); finally:
\* fileMap.current.delete(jobId).
Fail(id, error) ==
  /\ jobs' = updateJob(jobs, id, [status |-> "error", error |-> MessageOf(error)])
  /\ fileMap' = [fileMap EXCEPT ![id] = NoFile]

\* The completion update of processFile, and the finally block.
Complete(id, text, warnings) ==
  /\ jobs' = updateJob(jobs, id,
                       [status |-> "completed", completedAt |-> "set",
                        extractedText |-> text, warnings |-> warnings,
                        progress |-> One])
  /\ fileMap' = [fileMap EXCEPT ![id] = NoFile]

\* Promise.all rejects as soon as one ensureLanguageCached call failed.
NeverRejected(p) == FALSE

EnsureRejected(p) == p.failed

\* Promise.all settled: rejected as soon as one call failed, fulfilled when
\* every call succeeded.
AfterEnsure(id, error) ==
  /\ proc[id].pc = "ensure"
  /\ EnsureRejected(proc[id]) \/ proc[id].need = {}
  /\ error \in EnsureRejections
  /\ IF EnsureRejected(proc[id])
     THEN /\ Fail(id, error)
          /\ proc' = [proc EXCEPT ![id] = Returned([@ EXCEPT !.thrown = error])]
     ELSE /\ proc' = [proc EXCEPT ![id].pc = "resolve"]
          /\ UNCHANGED << jobs, fileMap >>
  /\ dirty' = (dirty \/ jobs' # jobs)
  /\ hist' = Observe(hist, jobs')
  /\ UNCHANGED << rJobs, selectedLanguages, rSelected, nextId, toggles,
                  effectDue, prefetchDue >>
  /\ UNCHANGED cacheVars
  /\ UNCHANGED registryVars

\* What the format resolution of a file yields: the number of rendered pages,
\* the extracted text and the warnings pushed so far, or the value thrown (by
\* a decoder, or by processFile for a file of no known kind).
Resolution(n, text, warnings, thrown) ==
  [n |-> n, text |-> text, warnings |-> warnings, thrown |-> thrown]

\* What a decoder (processImageFile, processPdfFile, extractDocxText,
\* extractDocxImages, blobsToRenderedPages) may reject with: an Error, or a
\* value that is not an Error.
DecoderRejections == {DecodeFailed, NonErrorValue}

\* What an awaited decoder call settles with: fulfilled, or a rejection.
DecoderOutcomes == {NotThrown} \cup DecoderRejections

\* "if (imageBlobs.length === 0) warnings.push(...)": the warning is pushed
\* for a document without embedded images, whatever else it holds.
DocxWarnings(blobs) == IF blobs = 0 THEN << NoImagesWarning >> ELSE << >>

\* What extractDocxText may return.
DocxTexts == {"", "text"}

\* What processImageFile or processPdfFile yields, and the Error thrown for a
\* file of no known kind.  The decoders of a Word document are awaited one
\* after the other, see DocxTextResume, DocxImagesResume, DocxPagesResume.
Resolutions(file) ==
  IF isImage(file) \/ isPdf(file)
  THEN {Resolution(n, "", << >>, NotThrown) : n \in 0..MaxPages}
       \cup {Resolution(0, "", << >>, e) : e \in DecoderRejections}
  ELSE IF isDocx(file)
  THEN {}
  ELSE {Resolution(0, "", << >>, UnsupportedFileType)}

\* "if (canvases.length === 0 && !extractedText) warnings.push(...)"
NoEmptyWarning(r) == r.warnings

WithEmptyWarning(r) ==
  IF r.n = 0 /\ r.text = "" THEN Append(r.warnings, NoContentWarning)
  ELSE r.warnings

\* processFile after its last decoder call settled with r: a thrown value
\* goes to the catch block; with no page the loop is skipped and the job
\* completes, otherwise recognizeImage is called for page 0.
AfterDecoders(id, r) ==
  /\ IF r.thrown # NotThrown
     THEN /\ Fail(id, r.thrown)
          /\ proc' = [proc EXCEPT
                        ![id] = Returned([@ EXCEPT !.thrown = r.thrown])]
     ELSE IF r.n = 0
     THEN /\ Complete(id, r.text, WithEmptyWarning(r))
          /\ proc' = [proc EXCEPT ![id] = Returned([@ EXCEPT !.resolved = TRUE])]
     ELSE /\ proc' = [proc EXCEPT ![id].pc = "page", ![id].resolved = TRUE,
                                  ![id].n = r.n, ![id].text = r.text,
                                  ![id].warnings = WithEmptyWarning(r),
                                  ![id].index = 0, ![id].calls = 1]
          /\ UNCHANGED << jobs, fileMap >>
  /\ dirty' = (dirty \/ jobs' # jobs)
  /\ hist' = Observe(hist, jobs')
  /\ UNCHANGED << rJobs, selectedLanguages, rSelected, nextId, toggles,
                  effectDue, prefetchDue >>
  /\ UNCHANGED cacheVars
  /\ UNCHANGED registryVars

\* processFile suspended at the await of its next decoder call: nothing but
\* its locals changed.
DecoderAwaited ==
  /\ UNCHANGED << jobs, rJobs, dirty, selectedLanguages, rSelected, fileMap,
                  nextId, toggles, effectDue, prefetchDue, hist >>
  /\ UNCHANGED cacheVars
  /\ UNCHANGED registryVars

\* The decoder of an image or of a PDF returned (or threw).
Resolve(id, r) ==
  /\ proc[id].pc = "resolve"
  /\ r \in Resolutions(fileMap[id])
  /\ AfterDecoders(id, r)

\* "extractedText = await extractDocxText(file)" settled: the text is kept
\* and extractDocxImages is called, or the thrown value goes to the catch
\* block.
DocxTextResume(id, text, thrown) ==
  /\ proc[id].pc = "resolve"
  /\ isDocx(fileMap[id])
  /\ text \in DocxTexts
  /\ thrown \in DecoderOutcomes
  /\ IF thrown # NotThrown
     THEN AfterDecoders(id, Resolution(0, "", << >>, thrown))
     ELSE /\ proc' = [proc EXCEPT ![id].pc = "docxImages", ![id].text = text]
          /\ DecoderAwaited

\* "const imageBlobs = await extractDocxImages(file)" settled: without
\* images the warning is pushed and processFile goes on with no canvas, with
\* images blobsToRenderedPages is called.
DocxImagesResume(id, blobs, thrown) ==
  /\ proc[id].pc = "docxImages"
  /\ blobs \in 0..MaxBlobs
  /\ thrown \in DecoderOutcomes
  /\ IF thrown # NotThrown
     THEN AfterDecoders(id, Resolution(0, proc[id].text, << >>, thrown))
     ELSE IF blobs = 0
     THEN AfterDecoders(id, Resolution(0, proc[id].text, DocxWarnings(blobs),
                                       NotThrown))
     ELSE /\ proc' = [proc EXCEPT ![id].pc = "docxPages",
                                  ![id].warnings = DocxWarnings(blobs)]
          /\ DecoderAwaited

\* "canvases = await blobsToRenderedPages(imageBlobs)" settled, with any
\* number of pages.
DocxPagesResume(id, n, thrown) ==
  /\ proc[id].pc = "docxPages"
  /\ n \in 0..MaxPages
  /\ thrown \in DecoderOutcomes
  /\ AfterDecoders(id, Resolution(n, proc[id].text, proc[id].warnings, thrown))

\* canvases.length || 1
Denominator(n) == IF n = 0 THEN 1 ELSE n

\* The progress callback of recognizeImage: (index + progress) / n.
CallbackProgress(index, h, n) == Frac(2 * index + h, 2 * Denominator(n))

OnProgress(id, h) ==
  /\ proc[id].pc = "page"
  /\ jobs' = updateJob(jobs, id,
                       [progress |-> CallbackProgress(proc[id].index, h, proc[id].n)])
  /\ dirty' = TRUE
  /\ hist' = Observe(hist, jobs')
  /\ UNCHANGED << rJobs, selectedLanguages, rSelected, fileMap, nextId,
                  toggles, effectDue, prefetchDue, proc >>
  /\ UNCHANGED cacheVars
  /\ UNCHANGED registryVars

\* The recognizeImage calls of a job that have returned or thrown.
ReturnedCalls(p) == IF p.pc = "page" THEN p.calls - 1 ELSE p.calls

\* The progress callback handed to the recognizeImage call of page index runs
\* after that call has returned: a report of the recognizer that arrives
\* late (spec 4.5: callbacks may arrive out of order for different pages).
\* The closure still holds jobId, index and canvases.length.
LateProgress(id, index, h) ==
  /\ index \in 0..(ReturnedCalls(proc[id]) - 1)
  /\ jobs' = updateJob(jobs, id,
                       [progress |-> CallbackProgress(index, h, proc[id].n)])
  /\ dirty' = TRUE
  /\ hist' = Observe(hist, jobs')
  /\ UNCHANGED << rJobs, selectedLanguages, rSelected, fileMap, nextId,
                  toggles, effectDue, prefetchDue, proc >>
  /\ UNCHANGED cacheVars
  /\ UNCHANGED registryVars

\* Every page recorded under the index of the first page.
SegmentOfFirstPage(index) == [pageIndex |-> 0, text |-> "text", confidence |-> 90]

Segment(index) == [pageIndex |-> index, text |-> "text", confidence |-> 90]

\* warnings after the duration check of one page.
WithDuration(warnings, index, duration) ==
  IF duration > DurationLimit THEN Append(warnings, DurationWarning(index))
  ELSE warnings

\* recognizeImage resolved for the current page: segment, duration warning,
\* progress; then the next page, or the completion update.
RecognizeDone(id, duration) ==
  LET p == proc[id]
      warnings == WithDuration(p.warnings, p.index, duration)
      paged == updateJob(appendSegment(jobs, id, Segment(p.index)), id,
                         [progress |-> Frac(p.index + 1, Denominator(p.n)),
                          warnings |-> warnings])
  IN /\ p.pc = "page"
     /\ IF p.index + 1 < p.n
        THEN /\ jobs' = paged
             /\ proc' = [proc EXCEPT ![id].index = @ + 1, ![id].calls = @ + 1,
                                     ![id].warnings = warnings,
                                     ![id].durations = Append(@, duration)]
             /\ UNCHANGED fileMap
        ELSE /\ jobs' = updateJob(paged, id,
                                  [status |-> "completed", completedAt |-> "set",
                                   extractedText |-> p.text,
                                   warnings |-> warnings, progress |-> One])
             /\ fileMap' = [fileMap EXCEPT ![id] = NoFile]
             /\ proc' = [proc EXCEPT ![id] =
                           Returned([@ EXCEPT !.durations = Append(@, duration)])]
     /\ dirty' = TRUE
     /\ hist' = Observe(hist, jobs')
     /\ UNCHANGED << rJobs, selectedLanguages, rSelected, nextId, toggles,
                     effectDue, prefetchDue >>
     /\ UNCHANGED cacheVars
     /\ UNCHANGED registryVars

\* What recognizeImage may reject with: an Error, or a value that is not an
\* Error.
RecognitionRejections == {RecognitionFailed, NonErrorValue}

\* recognizeImage rejected for the current page: the await throws into the
\* catch block of processFile.
RecognizeFail(id, error) ==
  /\ proc[id].pc = "page"
  /\ error \in RecognitionRejections
  /\ Fail(id, error)
  /\ proc' = [proc EXCEPT ![id] = Returned([@ EXCEPT !.failedAt = proc[id].index,
                                                      !.thrown = error])]
  /\ dirty' = (dirty \/ jobs' # jobs)
  /\ hist' = Observe(hist, jobs')
  /\ UNCHANGED << rJobs, selectedLanguages, rSelected, nextId, toggles,
                  effectDue, prefetchDue >>
  /\ UNCHANGED cacheVars
  /\ UNCHANGED registryVars

\* ----------------------------------------------------------- behaviours
RECURSIVE FileLists(_, _)
\* The file lists of length 1..n over the files of S.
FileLists(S, n) ==
  IF n = 0 THEN {}
  ELSE {<< f >> : f \in S}
       \cup {Append(l, f) : l \in FileLists(S, n - 1), f \in S}

\* The files that are not Word documents.
PlainFiles == {f \in Files : ~isDocx(f)}

\* The steps of the service worker and of the network for the keys of K, and
\* the page resuming on the worker's response.
CacheSteps(K) ==
  \/ \E k \in K : FetchListener(k)
  \/ \E k \in K : \E found \in CacheEntries : MatchResume(k, found)
  \/ \E k \in K : \E outcome \in NetOutcomes : NetSettle(k, outcome)
  \/ \E k \in K : ListenerResume(k)
  \/ \E k \in K : EnsureResume(k)
  \/ \E k \in K : \E i \in DOMAIN putPending[k] : CachePut(k, i)

\* The key of the initial selection, which every job has when no language
\* is toggled.
SelectedCodes == {"eng"}

\* Every operation of the page and of the service worker.
Next ==
  \/ PrefetchEffect
  \/ \E code \in AllCodes : Offered(code) /\ handleLanguageToggle(code)
  \/ \E code \in ImportCodes : handleLanguageImport(code)
  \/ \E ok \in BOOLEAN : ImportSettle(ok)
  \/ \E fileList \in FileLists(Files, MaxFiles) : handleFiles(fileList)
  \/ Render
  \/ AdmissionEffect
  \/ \E id \in JobIds : \E error \in EnsureRejections : AfterEnsure(id, error)
  \/ \E id \in JobIds : \E r \in Resolutions(fileMap[id]) : Resolve(id, r)
  \/ \E id \in JobIds : \E text \in DocxTexts : \E thrown \in DecoderOutcomes :
       DocxTextResume(id, text, thrown)
  \/ \E id \in JobIds : \E blobs \in 0..MaxBlobs : \E thrown \in DecoderOutcomes :
       DocxImagesResume(id, blobs, thrown)
  \/ \E id \in JobIds : \E n \in 0..MaxPages : \E thrown \in DecoderOutcomes :
       DocxPagesResume(id, n, thrown)
  \/ \E id \in JobIds : \E h \in ReportedHalves : OnProgress(id, h)
  \/ \E id \in JobIds : \E index \in 0..(MaxPages - 1) : \E h \in ReportedHalves :
       LateProgress(id, index, h)
  \/ \E id \in JobIds : \E duration \in Durations : RecognizeDone(id, duration)
  \/ \E id \in JobIds : \E error \in RecognitionRejections :
       RecognizeFail(id, error)
  \/ CacheSteps(AllCodes)

Spec == Init /\ [][Next]_vars

\* Intake, admission and the language cache with the default language
\* selection: the behaviours in which no decoder has returned yet.  The steps
\* of processFile after the ensure step change neither the cache nor the
\* dispatch of another job.
NextAdmission ==
  \/ PrefetchEffect
  \/ \E fileList \in FileLists(Files, MaxFiles) : handleFiles(fileList)
  \/ Render
  \/ AdmissionEffect
  \/ \E id \in JobIds : \E error \in EnsureRejections : AfterEnsure(id, error)
  \/ CacheSteps(Codes)

SpecAdmission == Init /\ [][NextAdmission]_vars

\* Language selection, admission and the pipeline up to the first
\* recognizeImage call of every job, for images and rejected files.
NextLanguages ==
  \/ PrefetchEffect
  \/ \E code \in Codes : handleLanguageToggle(code)
  \/ \E fileList \in FileLists(PlainFiles, MaxFiles) : handleFiles(fileList)
  \/ Render
  \/ AdmissionEffect
  \/ \E id \in JobIds : \E error \in EnsureRejections : AfterEnsure(id, error)
  \/ \E id \in JobIds : \E r \in Resolutions(fileMap[id]) : Resolve(id, r)
  \/ CacheSteps(Codes)

SpecLanguages == Init /\ [][NextLanguages]_vars

\* Admission and format resolution of every kind of file with the default
\* language selection, up to the first recognizeImage call of every job.
NextResolve ==
  \/ PrefetchEffect
  \/ \E fileList \in FileLists(Files, MaxFiles) : handleFiles(fileList)
  \/ Render
  \/ AdmissionEffect
  \/ \E id \in JobIds : \E error \in EnsureRejections : AfterEnsure(id, error)
  \/ \E id \in JobIds : \E r \in Resolutions(fileMap[id]) : Resolve(id, r)
  \/ \E id \in JobIds : \E text \in DocxTexts : \E thrown \in DecoderOutcomes :
       DocxTextResume(id, text, thrown)
  \/ \E id \in JobIds : \E blobs \in 0..MaxBlobs : \E thrown \in DecoderOutcomes :
       DocxImagesResume(id, blobs, thrown)
  \/ \E id \in JobIds : \E n \in 0..MaxPages : \E thrown \in DecoderOutcomes :
       DocxPagesResume(id, n, thrown)
  \/ CacheSteps(Codes)

SpecResolve == Init /\ [][NextResolve]_vars

\* The whole pipeline of images with the default language selection: the
\* behaviours in which the service worker handles the requests for the
\* selected language, and the prefetch of the other languages stays
\* unanswered.
NextPages ==
  \/ PrefetchEffect
  \/ \E fileList \in FileLists(PlainFiles, MaxFiles) : handleFiles(fileList)
  \/ Render
  \/ AdmissionEffect
  \/ \E id \in JobIds : \E error \in EnsureRejections : AfterEnsure(id, error)
  \/ \E id \in JobIds : \E r \in Resolutions(fileMap[id]) : Resolve(id, r)
  \/ \E id \in JobIds : \E h \in Halves : OnProgress(id, h)
  \/ \E id \in JobIds : \E duration \in Durations : RecognizeDone(id, duration)
  \/ \E id \in JobIds : \E error \in RecognitionRejections :
       RecognizeFail(id, error)
  \/ CacheSteps(SelectedCodes)

SpecPages == Init /\ [][NextPages]_vars

\* The language registry: toggles and imports next to intake and admission,
\* for images and rejected files: the behaviours in which the service
\* worker has not handled a request yet.
NextRegistry ==
  \/ PrefetchEffect
  \/ \E code \in AllCodes : Offered(code) /\ handleLanguageToggle(code)
  \/ \E code \in ImportCodes : handleLanguageImport(code)
  \/ \E ok \in BOOLEAN : ImportSettle(ok)
  \/ \E fileList \in FileLists(PlainFiles, MaxFiles) : handleFiles(fileList)
  \/ Render
  \/ AdmissionEffect

SpecRegistry == Init /\ [][NextRegistry]_vars

\* The whole pipeline of images, with progress reports that arrive after
\* their recognizeImage call returned.
NextCallbacks ==
  \/ NextPages
  \/ \E id \in JobIds : \E index \in 0..(MaxPages - 1) : \E h \in Halves :
       LateProgress(id, index, h)

SpecCallbacks == Init /\ [][NextCallbacks]_vars

\* The job whose recognizeImage calls need not return.
SlowJob == 1

\* What the scheduling guarantees: a scheduled render and the effects of a
\* render run, the service worker runs, a network fetch settles, the page
\* resumes on a response, and the promises processFile awaits
\* settle, save the recognizeImage calls of the slow job.
Fairness ==
  /\ WF_vars(PrefetchEffect)
  /\ WF_vars(Render)
  /\ WF_vars(AdmissionEffect)
  /\ \A k \in SelectedCodes : WF_vars(FetchListener(k))
  /\ \A k \in SelectedCodes :
       WF_vars(\E found \in CacheEntries : MatchResume(k, found))
  /\ \A k \in SelectedCodes :
       WF_vars(\E outcome \in NetOutcomes : NetSettle(k, outcome))
  /\ \A k \in SelectedCodes : WF_vars(ListenerResume(k))
  /\ \A k \in SelectedCodes : WF_vars(EnsureResume(k))
  /\ \A id \in JobIds : WF_vars(\E error \in EnsureRejections : AfterEnsure(id, error))
  /\ \A id \in JobIds :
       WF_vars(\E r \in Resolutions(fileMap[id]) : Resolve(id, r))
  /\ \A id \in JobIds :
       WF_vars(\E text \in DocxTexts : \E thrown \in DecoderOutcomes :
                 DocxTextResume(id, text, thrown))
  /\ \A id \in JobIds :
       WF_vars(\E blobs \in 0..MaxBlobs : \E thrown \in DecoderOutcomes :
                 DocxImagesResume(id, blobs, thrown))
  /\ \A id \in JobIds :
       WF_vars(\E n \in 0..MaxPages : \E thrown \in DecoderOutcomes :
                 DocxPagesResume(id, n, thrown))
  /\ \A id \in JobIds \ {SlowJob} :
       WF_vars((\E duration \in Durations : RecognizeDone(id, duration))
               \/ (\E error \in RecognitionRejections :
                     RecognizeFail(id, error)))

\* The steps of the pipeline that decide how far a job gets: the progress
\* callbacks, which change the progress field only, are left out.
NextLive ==
  \/ PrefetchEffect
  \/ \E fileList \in FileLists(PlainFiles, MaxFiles) : handleFiles(fileList)
  \/ Render
  \/ AdmissionEffect
  \/ \E id \in JobIds : \E error \in EnsureRejections : AfterEnsure(id, error)
  \/ \E id \in JobIds : \E r \in Resolutions(fileMap[id]) : Resolve(id, r)
  \/ \E id \in JobIds : \E duration \in Durations : RecognizeDone(id, duration)
  \/ \E id \in JobIds : \E error \in RecognitionRejections :
       RecognizeFail(id, error)
  \/ CacheSteps(SelectedCodes)

\* The pipeline of images under that scheduling.
SpecLive == Init /\ [][NextLive]_vars /\ Fairness

\* Submissions, toggles and imports in any order, and the pipeline of every
\* job up to its first recognizeImage call, for images and rejected files:
\* the behaviours in which the service worker handles the requests for the
\* initially selected language only.
NextCapture ==
  \/ PrefetchEffect
  \/ \E code \in AllCodes : Offered(code) /\ handleLanguageToggle(code)
  \/ \E code \in ImportCodes : handleLanguageImport(code)
  \/ \E ok \in BOOLEAN : ImportSettle(ok)
  \/ \E fileList \in FileLists(PlainFiles, MaxFiles) : handleFiles(fileList)
  \/ Render
  \/ AdmissionEffect
  \/ \E id \in JobIds : \E error \in EnsureRejections : AfterEnsure(id, error)
  \/ \E id \in JobIds : \E r \in Resolutions(fileMap[id]) : Resolve(id, r)
  \/ CacheSteps(SelectedCodes)

SpecCapture == Init /\ [][NextCapture]_vars

\* The pipeline of images with progress reports of any value.
NextReports ==
  \/ NextLive
  \/ \E id \in JobIds : \E h \in ReportedHalves : OnProgress(id, h)

SpecReports == Init /\ [][NextReports]_vars

\* ================================================================ claims
\* The entry of job id in the table js, as a sequence of 0 or 1 jobs.
Entry(js, id) == SelectSeq(js, LAMBDA job : job.id = id)

Waiting(p, k) == p.pc = "ensure" /\ k \in p.need

StatusPaths ==
  { << >>, << "pending" >>, << "pending", "processing" >>,
    << "pending", "processing", "completed" >>,
    << "pending", "processing", "error" >> }

\* C1: the statuses a job has had, in order, are a prefix of pending,
\* processing, completed or of pending, processing, error: no job returns to
\* pending, leaves a terminal status, or is terminal without having been
\* processing.
C1_StatusPath == \A id \in JobIds : hist[id] \in StatusPaths

\* C2: the pipeline of a job is started at most once, and no step starts the
\* pipeline of a job whose status is not pending.
C2_AtMostOnce ==
  /\ [](\A id \in JobIds : proc[id].runs <= 1)
  /\ [][\A id \in JobIds :
          proc'[id].runs # proc[id].runs => StatusOf(jobs, id) = "pending"]_vars

\* C2 witness: the admission effect is about to run on a render that holds a
\* job whose pipeline was started and a job that is still pending.
C2_Witness ==
  /\ effectDue
  /\ \E i, j \in DOMAIN rJobs :
       /\ ~rJobs[i].pending /\ proc[rJobs[i].id].runs = 1
       /\ fileMap[rJobs[i].id] # NoFile
       /\ rJobs[j].pending

\* C5: per key at most one fetch is under way (a request waiting for the
\* service worker, a cache lookup not yet resolved, a network fetch, or a
\* response not yet taken by the page),
\* it is under way exactly while the shared fetch of the key is in flight, and
\* the jobs that await the same key are released in the same step with the
\* same outcome.
C5_SingleFlight ==
  /\ [](\A k \in Codes :
          swReq[k] + Len(swMatch[k]) + swNet[k] + Len(swGot[k]) + Len(swResp[k])
            = IF inflight[k] THEN 1 ELSE 0)
  /\ [](\A k \in Codes : \A id \in JobIds : Waiting(proc[id], k) => inflight[k])
  /\ [][\A k \in Codes : \A i, j \in JobIds :
          (/\ Waiting(proc[i], k) /\ Waiting(proc[j], k)
           /\ proc'[i].pc = "ensure" /\ ~Waiting(proc'[i], k))
          => (/\ ~Waiting(proc'[j], k)
              /\ (k \in proc'[i].ensured <=> k \in proc'[j].ensured)
              /\ (proc'[i].failed <=> proc'[j].failed))]_vars

\* C5 witness: two jobs await the same key and one network fetch is
\* outstanding for it.
C5_Witness ==
  \E k \in Codes : \E i, j \in JobIds :
    i # j /\ Waiting(proc[i], k) /\ Waiting(proc[j], k) /\ swNet[k] = 1

\* C6: the cache never holds the response of a failed fetch, so that no
\* request is answered from the cache with it.
C6_FailedFetchNotCached == \A k \in Codes : swCache[k] # "bad"

\* C7: once a key is cache-resident it stays resident, and every request
\* whose lookup is made from then on finds an entry and is answered with an
\* entry of the cache, without a network fetch.
C7_ResidentNoNetwork ==
  [][\A k \in Codes :
       /\ swCache[k] # "none" => swCache'[k] # "none"
       /\ (swCache[k] # "none" /\ swReq'[k] < swReq[k])
          => swMatch'[k][Len(swMatch'[k])] # "none"
       /\ (Len(swMatch'[k]) < Len(swMatch[k]) /\ Head(swMatch[k]) # "none")
          => /\ swNet'[k] = swNet[k]
             /\ Len(swResp'[k]) = Len(swResp[k]) + 1
             /\ swResp'[k][Len(swResp'[k])] \in {"ok", "bad"}]_vars

\* C7 witness: a request for a resident key was answered from the cache.
C7_Witness == \E k \in Codes : served[k] /\ swCache[k] # "none" /\ swNet[k] = 0

\* C3: the progress of every job never decreases from one state to the next.
C3_ProgressMonotonic ==
  [][\A id \in JobIds :
       HasJob(jobs, id)
       => Leq(FindJob(jobs, id).progress, FindJob(jobs', id).progress)]_vars

\* C4: a multi-page job of which one recognition call failed ends completed,
\* with a warning for the failed page and the segments of all other pages.
C4_PageFailureIsolated ==
  \A id \in JobIds :
    (proc[id].pc = "done" /\ proc[id].failedAt >= 0 /\ proc[id].n >= 2)
    => LET job == FindJob(jobs, id)
       IN /\ job.status = "completed"
          /\ \E w \in Range(job.warnings) : w.page = proc[id].failedAt + 1
          /\ {seg.pageIndex : seg \in Range(job.segments)}
               = (0..(proc[id].n - 1)) \ {proc[id].failedAt}

C9_EnsuredBeforeRecognition ==
  \A id \in JobIds :
    proc[id].calls > 0
    => Range(FindJob(jobs, id).languages) \subseteq proc[id].ensured

\* C9 witness: a job with two languages has called the recognition.
C9_Witness ==
  \E id \in JobIds :
    /\ proc[id].calls > 0
    /\ Cardinality(Range(FindJob(jobs, id).languages)) = 2

\* C10: a job whose document resolved to no page and no text is completed,
\* without error, with the empty-content warning, no segment and no
\* recognition call.
C10_EmptyDocumentCompletes ==
  \A id \in JobIds :
    (/\ proc[id].pc = "done" /\ proc[id].resolved /\ proc[id].n = 0
     /\ FindJob(jobs, id).extractedText = "")
    => LET job == FindJob(jobs, id)
       IN /\ job.status = "completed"
          /\ job.error = "undefined"
          /\ NoContentWarning \in Range(job.warnings)
          /\ job.segments = << >>
          /\ proc[id].calls = 0

\* C10 witness: a Word document with embedded images that rendered to no
\* page, and without text, is done (no warning about missing images).
C10_Witness ==
  \E id \in JobIds :
    /\ proc[id].pc = "done" /\ proc[id].resolved /\ proc[id].n = 0
    /\ FindJob(jobs, id).type = "Word Document"
    /\ FindJob(jobs, id).extractedText = ""
    /\ FindJob(jobs, id).status = "completed"
    /\ NoImagesWarning \notin Range(FindJob(jobs, id).warnings)

PageIndices(segments) == {segments[i].pageIndex : i \in DOMAIN segments}

\* C11: the page indices of the segments of a job are pairwise distinct and
\* lie in 0..pageCount-1, and the displayed and exported text of a completed
\* job shows exactly its segments, ordered by page index.
C11_SegmentIndices ==
  \A id \in JobIds :
    HasJob(jobs, id)
    => LET job == FindJob(jobs, id)
           shown == combineSegments(job.segments)
       IN /\ \A i, j \in DOMAIN job.segments :
               job.segments[i].pageIndex = job.segments[j].pageIndex => i = j
          /\ PageIndices(job.segments) \subseteq 0..(proc[id].n - 1)
          /\ job.status = "completed"
             => /\ Len(shown) = Len(job.segments)
                /\ {shown[i].segment : i \in DOMAIN shown} = Range(job.segments)
                /\ \A i \in DOMAIN shown : \A j \in DOMAIN shown :
                     i < j => shown[i].segment.pageIndex < shown[j].segment.pageIndex

\* C11 witness: a completed job of two pages with both segments.
C11_Witness ==
  \E id \in JobIds :
    /\ StatusOf(jobs, id) = "completed"
    /\ proc[id].n = 2
    /\ Len(FindJob(jobs, id).segments) = 2

\* C12: the list of available languages holds at most one entry per language
\* code, whatever was imported.
C12_OneEntryPerCode ==
  \A i, j \in DOMAIN availableLanguages :
    availableLanguages[i].code = availableLanguages[j].code => i = j

\* C14: the selection a submission reads is never empty, so no submission
\* has an empty language set, and every job of the table has at least one
\* language code.
C14_NonEmptyLanguages ==
  /\ selectedLanguages # << >>
  /\ rSelected # << >>
  /\ \A i \in DOMAIN jobs : jobs[i].languages # << >>

\* C14 witness: a job submitted after an import and after the toggle that
\* removed the initial language: its only language is the imported one.
C14_Witness ==
  \E i \in DOMAIN jobs :
    jobs[i].languages = << "fra" >> /\ jobs[i].status = "pending"

\* C13: a submission of unsupported files only (it takes a uuid and stores no
\* file) leaves the job table as it was.
C13_RejectedCreatesNoJob ==
  [][(nextId' # nextId /\ fileMap' = fileMap) => jobs' = jobs]_vars

\* C15: in a step that changes a job, every other job of the table keeps
\* all its fields, unless that job's own pipeline starts in the same step
\* (the admission effect starts every pending job).
C15_JobIsolation ==
  [][\A i, j \in JobIds :
       (/\ i # j /\ HasJob(jobs, i) /\ HasJob(jobs, j)
        /\ Entry(jobs', i) # Entry(jobs, i))
       => \/ Entry(jobs', j) = Entry(jobs, j)
          \/ proc'[j].runs = proc[j].runs + 1]_vars

\* C15 witness: the recognition of one job failed after a page of it was
\* recorded, while another job is in its page loop with a page recorded.
C15_Witness ==
  \E i, j \in JobIds :
    /\ i # j
    /\ proc[i].failedAt >= 1 /\ StatusOf(jobs, i) = "error"
    /\ proc[j].pc = "page" /\ StatusOf(jobs, j) = "processing"
    /\ FindJob(jobs, j).segments # << >>

Terminal(status) == status \in {"completed", "error"}

\* C16: every pending job is dispatched, and every job but the slow one
\* reaches completed or error, whether or not the recognition of the slow job
\* ever returns.
C16_NoBlocking ==
  /\ \A id \in JobIds :
       (StatusOf(jobs, id) = "pending") ~> (StatusOf(jobs, id) # "pending")
  /\ \A id \in JobIds \ {SlowJob} :
       HasJob(jobs, id) ~> Terminal(StatusOf(jobs, id))

\* C16 witness: a job submitted later is completed with its pages recognized
\* while the slow job is still in its first recognition call.
C16_Witness ==
  \E id \in JobIds \ {SlowJob} :
    /\ proc[SlowJob].pc = "page" /\ proc[SlowJob].index = 0
    /\ StatusOf(jobs, id) = "completed" /\ proc[id].calls > 0

\* C17: no step changes any field of a job whose status is completed or
\* error.
C17_TerminalFrozen ==
  [][\A id \in JobIds :
       Terminal(StatusOf(jobs, id)) => Entry(jobs', id) = Entry(jobs, id)]_vars

\* C18: the segments of a job are recorded in increasing page order without
\* a gap, at most one recognition call of the job is not yet recorded, the
\* call in flight is the one for the page after the last recorded one, and
\* the call for a further page starts only in a step that leaves the result
\* of the page before it recorded.
C18_PagesInOrder ==
  /\ [](\A id \in JobIds :
          HasJob(jobs, id)
          => LET segs == FindJob(jobs, id).segments
             IN /\ \A i \in DOMAIN segs : segs[i].pageIndex = i - 1
                /\ proc[id].calls - Len(segs) \in {0, 1}
                /\ proc[id].pc = "page"
                   => /\ proc[id].calls = Len(segs) + 1
                      /\ proc[id].index = Len(segs))
  /\ [][\A id \in JobIds :
          (proc[id].calls > 0 /\ proc'[id].calls # proc[id].calls)
          => /\ proc'[id].calls = proc[id].calls + 1
             /\ Len(FindJob(jobs', id).segments) = proc[id].calls
             /\ FindJob(jobs', id).segments[proc[id].calls].pageIndex
                  = proc[id].calls - 1]_vars

\* C18 witness: the call for the second page of a job is in flight and the
\* segment of its first page is recorded.
C18_Witness ==
  \E id \in JobIds :
    /\ proc[id].pc = "page" /\ proc[id].index = 1 /\ proc[id].calls = 2
    /\ Len(FindJob(jobs, id).segments) = 1

\* C19: in the step that makes a job completed the job has exactly one
\* segment per page index 0..n-1, progress 1 and the completion timestamp;
\* a pending or processing job has no completion timestamp.
C19_CompletionFields ==
  /\ [][\A id \in JobIds :
          (StatusOf(jobs, id) # "completed" /\ StatusOf(jobs', id) = "completed")
          => LET job == FindJob(jobs', id)
             IN /\ Len(job.segments) = proc'[id].n
                /\ PageIndices(job.segments) = 0..(proc'[id].n - 1)
                /\ job.progress = Frac(1, 1)
                /\ job.completedAt = "set"]_vars
  /\ [](\A i \in DOMAIN jobs :
          jobs[i].status \in {"pending", "processing"}
          => jobs[i].completedAt = "undefined")

\* C19 witness: a job is completed after two pages, both over the duration
\* limit.
C19_Witness ==
  \E id \in JobIds :
    /\ StatusOf(jobs, id) = "completed"
    /\ proc[id].n = 2 /\ proc[id].calls = 2
    /\ Len(FindJob(jobs, id).warnings) = 2

\* C20: the step that puts a job into error keeps its segments, and a job in
\* error whose recognition failed at page k holds the k segments of the pages
\* before it.
C20_PartialProgressKept ==
  /\ [][\A id \in JobIds :
          (HasJob(jobs, id) /\ StatusOf(jobs, id) # "error"
           /\ StatusOf(jobs', id) = "error")
          => FindJob(jobs', id).segments = FindJob(jobs, id).segments]_vars
  /\ [](\A id \in JobIds :
          (proc[id].pc = "done" /\ proc[id].failedAt >= 0)
          => /\ StatusOf(jobs, id) = "error"
             /\ Len(FindJob(jobs, id).segments) = proc[id].failedAt
             /\ PageIndices(FindJob(jobs, id).segments)
                  = 0..(proc[id].failedAt - 1))

\* C20 witness: a job is in error after its second recognition call failed,
\* and the segment of its first page is on the job.
C20_Witness ==
  \E id \in JobIds :
    /\ StatusOf(jobs, id) = "error" /\ proc[id].failedAt = 1
    /\ PageIndices(FindJob(jobs, id).segments) = {0}

\* C21: the progress of every job lies in [0, 1].
C21_ProgressInRange ==
  \A i \in DOMAIN jobs :
    Leq(Frac(0, 1), jobs[i].progress) /\ Leq(jobs[i].progress, Frac(1, 1))

\* The warnings expected for the pages i.. of a run with the durations d: one
\* for each page slower than the limit, naming the page counted from 1.
RECURSIVE SlowNotices(_, _)
SlowNotices(d, i) ==
  IF i > Len(d) THEN << >>
  ELSE (IF d[i] > 15000 THEN << [kind |-> "slow-page", page |-> i] >>
        ELSE << >>) \o SlowNotices(d, i + 1)

SlowWarnings(job) == SelectSeq(job.warnings, LAMBDA w : w.kind = "slow-page")

\* A page was recognized in this step and took longer than the limit.
SlowPageDone(id) ==
  /\ Len(proc'[id].durations) = Len(proc[id].durations) + 1
  /\ proc'[id].durations[Len(proc'[id].durations)] > 15000

\* C22: the slow-page warnings of a job are exactly one warning for each page
\* that took longer than 15000 ms, naming that page, in the order the pages
\* were processed; the step recording a slow page leaves the job without an
\* error, and either goes on with the next page or completes the job.
C22_SlowPageWarns ==
  /\ [](\A id \in JobIds :
          HasJob(jobs, id) =>
            SlowWarnings(FindJob(jobs, id)) = SlowNotices(proc[id].durations, 1))
  /\ [][\A id \in JobIds :
          SlowPageDone(id) =>
            /\ HasJob(jobs', id)
            /\ FindJob(jobs', id).error = "undefined"
            /\ \/ /\ FindJob(jobs', id).status = "processing"
                  /\ proc'[id].pc = "page"
                  /\ proc'[id].index = proc[id].index + 1
               \/ /\ FindJob(jobs', id).status = "completed"
                  /\ proc[id].index + 1 = proc[id].n]_vars

\* A job of two pages completed after a slow first page.
C22_Witness ==
  \E id \in JobIds :
    /\ HasJob(jobs, id)
    /\ FindJob(jobs, id).status = "completed"
    /\ Len(proc[id].durations) = 2
    /\ proc[id].durations[1] > 15000
    /\ proc[id].durations[2] <= 15000
    /\ SlowWarnings(FindJob(jobs, id)) = << [kind |-> "slow-page", page |-> 1] >>

\* C23: a job carries an error message exactly when its status is error, the
\* job created for rejected files included.
C23_ErrorIffStatus ==
  \A i \in DOMAIN jobs :
    (jobs[i].error # "undefined") <=> (jobs[i].status = "error")

\* The job of the rejected files next to a job that failed in processFile
\* with a thrown value that is not an Error.
C23_Witness ==
  /\ \E i \in DOMAIN jobs :
       /\ jobs[i].status = "error"
       /\ jobs[i].error = "Unsupported files"
  /\ \E id \in JobIds :
       /\ HasJob(jobs, id)
       /\ proc[id].pc = "done"
       /\ FindJob(jobs, id).status = "error"
       /\ FindJob(jobs, id).error = "Unexpected error"

\* C24: the file map holds the file of every job that is pending or
\* processing, and no file for a job that is completed or error.
C24_FileMapTracksJobs ==
  \A id \in JobIds :
    HasJob(jobs, id) =>
      ((FindJob(jobs, id).status \in {"pending", "processing"})
         <=> (fileMap[id] # NoFile))

\* A pending job with its file, next to a job that failed in processFile and a
\* job that processFile completed, both without a file.
C24_Witness ==
  /\ \E id \in JobIds :
       HasJob(jobs, id) /\ FindJob(jobs, id).status = "pending"
       /\ fileMap[id] # NoFile
  /\ \E id \in JobIds :
       HasJob(jobs, id) /\ FindJob(jobs, id).status \in {"completed", "error"}
       /\ proc[id].pc = "done" /\ fileMap[id] = NoFile

\* C25: a job is created with the selection shown at its submission; no step,
\* toggles and imports included, changes the languages of an existing job; and
\* the recognizeImage calls of a job are made with the languages of the job.
C25_LanguagesCaptured ==
  /\ [][\A i \in DOMAIN jobs' :
          IF HasJob(jobs, jobs'[i].id)
          THEN jobs'[i].languages = FindJob(jobs, jobs'[i].id).languages
          ELSE jobs'[i].languages = rSelected]_vars
  /\ [][\A i \in DOMAIN jobs : HasJob(jobs', jobs[i].id)]_vars
  /\ [](\A id \in JobIds :
          (HasJob(jobs, id) /\ proc[id].calls > 0)
            => proc[id].langs = FindJob(jobs, id).languages)

\* A job whose recognizeImage call was made after the selection had changed
\* by a toggle or an import: the job has the languages of its submission.
C25_Witness ==
  \E id \in JobIds :
    /\ HasJob(jobs, id)
    /\ proc[id].calls > 0
    /\ proc[id].langs = FindJob(jobs, id).languages
    /\ FindJob(jobs, id).languages # rSelected
    /\ FindJob(jobs, id).languages # selectedLanguages
    /\ toggles + imports > 0
====
